---- MODULE Spec2Model ----
(***************************************************************************)
(* Loan / reservation lifecycle of the library application.                *)
(*                                                                         *)
(* The in-memory state of the services (BookService.books,                 *)
(* UserService.users, LoanService.loans, ReservationService.reservations   *)
(* and the class-level Reservation._files_attente) is the state of the     *)
(* machine; every service method is one action.  Date strings in the       *)
(* format "%d/%m/%Y" are triples <<day, month, year>>; two such strings    *)
(* compare as Python compares them (character by character, i.e. by day,   *)
(* then month, then year), while parse_date turns them into day numbers.   *)
(* Identifiers produced by generate_id are taken fresh (the smallest       *)
(* number not in use).  journal is the notification file reservation.log,  *)
(* one record per notification written.                                    *)
(***************************************************************************)
EXTENDS Integers, Sequences, FiniteSets, TLC

VARIABLES books, users, loans, resv, reservations, files_attente, today, journal

vars == <<books, users, loans, resv, reservations, files_attente, today, journal>>

(***************************************************************************)
(* Bounds of the model.                                                    *)
(***************************************************************************)
MaxReemprunts == 1
MaxRenouvellements == 1
MaxTotal == 2
MaxNotifications == 2
MaxSuccessifs == 15

(***************************************************************************)
(* Program constants (app/utils/constants.py, app/main.py, loan.py).       *)
(***************************************************************************)
LIMITE_EMPRUNTS_ETUDIANT == 4
LIMITE_EMPRUNTS_ENSEIGNANT == 6
LIMITE_EMPRUNTS_PERSONNEL_ADMIN == 0
DUREE_EMPRUNT_DEFAUT == 30
DUREE_RESERVATION_MENU == 21
TAUX_PAR_JOUR_DEFAUT == 50

Users == {"u1", "u2", "u3"}

BookStatus == {"disponible", "emprunte", "reserve", "perdu", "endommage"}

None == <<>>

(***************************************************************************)
(* Dates: parse_date / format_date over the Gregorian calendar.            *)
(***************************************************************************)
Epoch == <<1, 1, 2025>>

IsLeap(y) == (y % 4 = 0 /\ y % 100 # 0) \/ (y % 400 = 0)

DaysInMonth(m, y) ==
    IF m = 2 THEN (IF IsLeap(y) THEN 29 ELSE 28)
    ELSE IF m \in {4, 6, 9, 11} THEN 30 ELSE 31

DaysInYear(y) == IF IsLeap(y) THEN 366 ELSE 365

RECURSIVE DaysBeforeYear(_)
DaysBeforeYear(y) ==
    IF y <= Epoch[3] THEN 0 ELSE DaysInYear(y - 1) + DaysBeforeYear(y - 1)

RECURSIVE DaysBeforeMonth(_, _)
DaysBeforeMonth(m, y) ==
    IF m <= 1 THEN 0 ELSE DaysInMonth(m - 1, y) + DaysBeforeMonth(m - 1, y)

\* datetime.strptime(s, "%d/%m/%Y"), as the number of days since Epoch
parse_date(s) == DaysBeforeYear(s[3]) + DaysBeforeMonth(s[2], s[3]) + (s[1] - 1)

RECURSIVE FormatFrom(_, _, _)
FormatFrom(n, m, y) ==
    IF n >= DaysInYear(y) /\ m = 1 THEN FormatFrom(n - DaysInYear(y), 1, y + 1)
    ELSE IF n >= DaysInMonth(m, y) THEN FormatFrom(n - DaysInMonth(m, y), m + 1, y)
    ELSE <<n + 1, m, y>>

\* date_obj.strftime("%d/%m/%Y") of the day numbered n
format_date(n) == FormatFrom(n, 1, Epoch[3])

\* s < t as Python compares the two strings "dd/mm/yyyy"
StrLess(s, t) ==
    \/ s[1] < t[1]
    \/ s[1] = t[1] /\ s[2] < t[2]
    \/ s[1] = t[1] /\ s[2] = t[2] /\ s[3] < t[3]

\* values DATE_ACTUEL takes around the due date of a loan made on 15/01/2025
DatesEcheance == {<<13, 2, 2025>>, <<14, 2, 2025>>, <<15, 2, 2025>>,
                  <<19, 2, 2025>>, <<2, 3, 2025>>}

\* values DATE_ACTUEL takes during a run
ClockDates == {<<15, 1, 2025>>, <<1, 2, 2025>>}

(***************************************************************************)
(* Book (app/models/book.py).                                              *)
(***************************************************************************)
NewBook(total) ==
    LET t == IF total < 1 THEN 1 ELSE total IN
    [statut |-> "disponible", compteur_emprunt |-> 0,
     nbre_exemplaire_total |-> t, exemplaire_disponible |-> t]

est_disponible(bk) == bk.statut = "disponible" /\ bk.exemplaire_disponible > 0

incrementer_compteur(bk) == [bk EXCEPT !.compteur_emprunt = @ + 1]

\* variant: the increment is not capped at the number of copies
incrementer_sans_plafond(bk) == [bk EXCEPT !.exemplaire_disponible = @ + 1]

incrementer_exemplaire_disponible(bk) ==
    IF bk.exemplaire_disponible < bk.nbre_exemplaire_total
    THEN [bk EXCEPT !.exemplaire_disponible = @ + 1]
    ELSE bk

\* variant: a copy leaves without being counted
decrementer_sans_effet(bk) == bk

decrementer_exemplaire_disponible(bk) ==
    IF bk.exemplaire_disponible > 0
    THEN [bk EXCEPT !.exemplaire_disponible = @ - 1,
                    !.statut = IF bk.exemplaire_disponible - 1 = 0
                               THEN "emprunte" ELSE @]
    ELSE bk

\* variant: the total is replaced and the available copies are left alone
set_nbre_sans_ajustement(bk, value) ==
    IF value < 1 THEN [err |-> "ValidationError", bk |-> bk]
    ELSE [err |-> "none", bk |-> [bk EXCEPT !.nbre_exemplaire_total = value]]

\* the setter of nbre_exemplaire_total: err is "none" or the ValueError raised.
\* int(value * (disponible / old_total)) is the floor of the exact quotient
\* for the small numbers used here.
set_nbre_exemplaire_total(bk, value) ==
    IF value < 1 THEN [err |-> "ValidationError", bk |-> bk]
    ELSE [err |-> "none",
          bk |-> [bk EXCEPT
                    !.nbre_exemplaire_total = value,
                    !.exemplaire_disponible =
                        IF bk.exemplaire_disponible > value THEN value
                        ELSE IF bk.nbre_exemplaire_total > 0
                        THEN (value * bk.exemplaire_disponible)
                                \div bk.nbre_exemplaire_total
                        ELSE @]]

\* Book.to_dict: the stored record of a book
Book_to_dict(bk) ==
    [statut |-> bk.statut, compteur_emprunt |-> bk.compteur_emprunt]

\* Book.from_dict, through Book.__init__: a key the record lacks takes the
\* default of data.get
Book_from_dict(data) ==
    LET total0 == IF "nbre_exemplaire_total" \in DOMAIN data
                  THEN data.nbre_exemplaire_total ELSE 1
        total == IF total0 < 1 THEN 1 ELSE total0
        dispo0 == IF "exemplaire_disponible" \in DOMAIN data
                  THEN data.exemplaire_disponible ELSE total
        dispo == IF dispo0 > total THEN total ELSE dispo0
        compteur0 == IF "compteur_emprunt" \in DOMAIN data
                     THEN data.compteur_emprunt ELSE 0
    IN [statut |-> IF "statut" \in DOMAIN data THEN data.statut ELSE "disponible",
        compteur_emprunt |-> IF compteur0 < 0 THEN 0 ELSE compteur0,
        nbre_exemplaire_total |-> total,
        exemplaire_disponible |-> dispo]

(***************************************************************************)
(* User (app/models/user.py).                                              *)
(***************************************************************************)
type_utilisateur(u) ==
    CASE u = "u1" -> "Etudiant"
      [] u = "u2" -> "Enseignant"
      [] OTHER    -> "Personnel_admin"

limite_emprunts(u) ==
    CASE type_utilisateur(u) = "Etudiant"   -> LIMITE_EMPRUNTS_ETUDIANT
      [] type_utilisateur(u) = "Enseignant" -> LIMITE_EMPRUNTS_ENSEIGNANT
      [] OTHER                              -> LIMITE_EMPRUNTS_PERSONNEL_ADMIN

NewUser == [list_emprunt |-> <<>>, nombre_emprunt_total |-> 0]

nombre_emprunts_en_cours(usr) == Len(usr.list_emprunt)

\* variant: every patron may always borrow
peut_toujours_emprunter(usr, u) == TRUE

peut_emprunter(usr, u) == nombre_emprunts_en_cours(usr) < limite_emprunts(u)

\* the user after ajouter_emprunt, or None when it raises
ajouter_emprunt(usr, u, id, date_emprunt, date_retour_prevue) ==
    IF ~peut_emprunter(usr, u) THEN None
    ELSE [usr EXCEPT
            !.list_emprunt = Append(@, [id_emprunt |-> id,
                                        date_emprunt |-> date_emprunt,
                                        date_retour_prevue |-> date_retour_prevue]),
            !.nombre_emprunt_total = @ + 1]

HasEmprunt(usr, id) ==
    \E i \in 1..Len(usr.list_emprunt) : usr.list_emprunt[i].id_emprunt = id

RemoveAt(s, i) == SubSeq(s, 1, i - 1) \o SubSeq(s, i + 1, Len(s))

\* variant: the summary stays in the list
retirer_emprunt_sans_effet(usr, id) == usr

\* the user after retirer_emprunt (the first entry with that id is popped)
retirer_emprunt(usr, id) ==
    IF ~HasEmprunt(usr, id) THEN usr
    ELSE LET i == CHOOSE k \in 1..Len(usr.list_emprunt) :
                    /\ usr.list_emprunt[k].id_emprunt = id
                    /\ \A j \in 1..(k - 1) : usr.list_emprunt[j].id_emprunt # id
         IN [usr EXCEPT !.list_emprunt = RemoveAt(@, i)]

(***************************************************************************)
(* The state the services hold, as one record, so that every service       *)
(* method is a function from a state (and its arguments) to a result.      *)
(***************************************************************************)
St == [books |-> books, users |-> users, loans |-> loans, resv |-> resv,
       reservations |-> reservations, files_attente |-> files_attente]

\* the smallest identifier not in the set used (generate_id)
FreshId(used) ==
    CHOOSE n \in 1..(Cardinality(used) + 1) :
        n \notin used /\ \A m \in 1..(n - 1) : m \in used

LoanIdsInUse(st) ==
    {st.loans[i].id_emprunt : i \in 1..Len(st.loans)} \cup
    UNION {{st.users[u].list_emprunt[i].id_emprunt :
                i \in 1..Len(st.users[u].list_emprunt)} : u \in DOMAIN st.users}

(***************************************************************************)
(* Loan (app/models/loan.py).                                              *)
(***************************************************************************)
\* variant: the default due date falls one day late
NewLoan_un_jour_de_trop(id, b, u, date_emprunt, date_retour_prevue, now) ==
    LET de == IF date_emprunt = None THEN now ELSE date_emprunt
        dr == IF date_retour_prevue = None
              THEN format_date(parse_date(de) + DUREE_EMPRUNT_DEFAUT + 1)
              ELSE date_retour_prevue
    IN [id_emprunt |-> id, id_livre |-> b, id_utilisateur |-> u,
        date_emprunt |-> de, date_retour_prevue |-> dr, penalites |-> 0]

NewLoan(id, b, u, date_emprunt, date_retour_prevue, now) ==
    LET de == IF date_emprunt = None THEN now ELSE date_emprunt
        dr == IF date_retour_prevue = None
              THEN format_date(parse_date(de) + DUREE_EMPRUNT_DEFAUT)
              ELSE date_retour_prevue
    IN [id_emprunt |-> id, id_livre |-> b, id_utilisateur |-> u,
        date_emprunt |-> de, date_retour_prevue |-> dr, penalites |-> 0]

verification_disponibilite(loan, b, bk) ==
    /\ b = loan.id_livre
    /\ est_disponible(bk) /\ bk.exemplaire_disponible > 0

\* variant: the copy is taken before the patron's limit is looked at
Loan_emprunter_copie_d_abord(st, loan, b, u) ==
    LET bk == st.books[b]
        usr == st.users[u]
        bk2 == incrementer_compteur(decrementer_exemplaire_disponible(bk))
    IN IF ~verification_disponibilite(loan, b, bk)
       THEN [err |-> "NotAvailable", st |-> st]
       ELSE IF ~peut_emprunter(usr, u)
       THEN [err |-> "LimitExceeded", st |-> [st EXCEPT !.books[b] = bk2]]
       ELSE [err |-> "none",
             st |-> [st EXCEPT !.books[b] = bk2,
                               !.users[u] = ajouter_emprunt(usr, u, loan.id_emprunt,
                                                loan.date_emprunt,
                                                loan.date_retour_prevue)]]

\* Loan.emprunter: err is "none" when it returns True, else the ValueError raised
Loan_emprunter(st, loan, b, u) ==
    LET bk == st.books[b]
        usr == st.users[u]
    IN IF ~verification_disponibilite(loan, b, bk)
       THEN [err |-> "NotAvailable", st |-> st]
       ELSE IF ~peut_emprunter(usr, u)
       THEN [err |-> "LimitExceeded", st |-> st]
       ELSE LET bk2 == incrementer_compteur(decrementer_exemplaire_disponible(bk))
                usr2 == ajouter_emprunt(usr, u, loan.id_emprunt, loan.date_emprunt,
                                        loan.date_retour_prevue)
            IN IF usr2 = None
               THEN [err |-> "BorrowError",
                     st |-> [st EXCEPT !.books[b] =
                               IF bk2.exemplaire_disponible < bk2.nbre_exemplaire_total
                               THEN incrementer_exemplaire_disponible(bk2) ELSE bk2]]
               ELSE [err |-> "none",
                     st |-> [st EXCEPT !.books[b] = bk2, !.users[u] = usr2]]

\* variant: the book handed in is not compared with the book of the loan
Loan_retourner_sans_controle_titre(st, loan, b, u) ==
    LET bk == st.books[b]
        usr == st.users[u]
    IN IF ~HasEmprunt(usr, loan.id_emprunt) THEN [ok |-> FALSE, st |-> st]
       ELSE LET bk1 == incrementer_exemplaire_disponible(bk)
                bk2 == IF bk1.exemplaire_disponible > 0 /\ bk1.statut = "emprunte"
                       THEN [bk1 EXCEPT !.statut = "disponible"] ELSE bk1
            IN [ok |-> TRUE,
                st |-> [st EXCEPT !.books[b] = bk2,
                                  !.users[u] = retirer_emprunt(usr, loan.id_emprunt)]]

\* variant: a copy coming back makes the title available whatever its status
Loan_retourner_remet_disponible(st, loan, b, u) ==
    LET bk == st.books[b]
        usr == st.users[u]
    IN IF b # loan.id_livre THEN [ok |-> FALSE, st |-> st]
       ELSE IF ~HasEmprunt(usr, loan.id_emprunt) THEN [ok |-> FALSE, st |-> st]
       ELSE LET bk1 == incrementer_exemplaire_disponible(bk)
                bk2 == IF bk1.exemplaire_disponible > 0
                       THEN [bk1 EXCEPT !.statut = "disponible"] ELSE bk1
            IN [ok |-> TRUE,
                st |-> [st EXCEPT !.books[b] = bk2,
                                  !.users[u] = retirer_emprunt(usr, loan.id_emprunt)]]

\* Loan.retourner: ok is the boolean it returns
Loan_retourner(st, loan, b, u) ==
    LET bk == st.books[b]
        usr == st.users[u]
    IN IF b # loan.id_livre THEN [ok |-> FALSE, st |-> st]
       ELSE IF ~HasEmprunt(usr, loan.id_emprunt) THEN [ok |-> FALSE, st |-> st]
       ELSE LET bk1 == incrementer_exemplaire_disponible(bk)
                bk2 == IF bk1.exemplaire_disponible > 0 /\ bk1.statut = "emprunte"
                       THEN [bk1 EXCEPT !.statut = "disponible"] ELSE bk1
            IN [ok |-> TRUE,
                st |-> [st EXCEPT !.books[b] = bk2,
                                  !.users[u] = retirer_emprunt(usr, loan.id_emprunt)]]

\* variant: the difference in days is returned as it is
detecter_retard_sans_plancher(loan, now) ==
    parse_date(now) - parse_date(loan.date_retour_prevue)

\* Loan.detecter_retard, now being get_current_date()
detecter_retard(loan, now) ==
    LET difference == parse_date(now) - parse_date(loan.date_retour_prevue)
    IN IF difference > 0 THEN difference ELSE 0

\* Loan.calculer_penalites: valeur is the amount returned, loan the object
\* with the amount stored
calculer_penalites(loan, now, taux_par_jour) ==
    LET jours_retard == detecter_retard(loan, now)
    IN [valeur |-> jours_retard * taux_par_jour,
        loan |-> [loan EXCEPT !.penalites = jours_retard * taux_par_jour]]

(***************************************************************************)
(* LoanService (app/services/loan_service.py).                             *)
(***************************************************************************)
\* index of the first loan with that id, 0 when there is none
LoanIndex(st, id) ==
    IF \E i \in 1..Len(st.loans) : st.loans[i].id_emprunt = id
    THEN CHOOSE i \in 1..Len(st.loans) :
            /\ st.loans[i].id_emprunt = id
            /\ \A j \in 1..(i - 1) : st.loans[j].id_emprunt # id
    ELSE 0

\* the for loop of emprunter_livre: k units left, crees the ids created so far.
\* Loan.emprunter returns True or raises, so an exception leaves the loop with
\* the units already made still applied.
RECURSIVE EmprunterBoucle(_, _, _, _, _, _)
EmprunterBoucle(st, b, u, k, now, crees) ==
    IF k = 0 THEN [err |-> "none", st |-> st, crees |-> crees]
    ELSE LET emprunt == NewLoan(FreshId(LoanIdsInUse(st)), b, u, None, None, now)
             r == Loan_emprunter(st, emprunt, b, u)
         IN IF r.err # "none"
            THEN [err |-> r.err, st |-> r.st, crees |-> crees]
            ELSE EmprunterBoucle([r.st EXCEPT !.loans = Append(@, emprunt)],
                                 b, u, k - 1, now, Append(crees, emprunt.id_emprunt))

\* variant: the number of available copies is not compared with the request
emprunter_sans_controle_exemplaires(st, b, u, nbre_exemplaires, now) ==
    IF nbre_exemplaires < 1
    THEN [err |-> "ValidationError", st |-> st, crees |-> <<>>]
    ELSE IF nbre_exemplaires >
              limite_emprunts(u) - nombre_emprunts_en_cours(st.users[u])
    THEN [err |-> "LimitExceeded", st |-> st, crees |-> <<>>]
    ELSE EmprunterBoucle(st, b, u, nbre_exemplaires, now, <<>>)

\* variant: the remaining allowance is not compared with the request
emprunter_sans_controle_limite(st, b, u, nbre_exemplaires, now) ==
    IF nbre_exemplaires < 1
    THEN [err |-> "ValidationError", st |-> st, crees |-> <<>>]
    ELSE IF st.books[b].exemplaire_disponible < nbre_exemplaires
    THEN [err |-> "InsufficientCopies", st |-> st, crees |-> <<>>]
    ELSE EmprunterBoucle(st, b, u, nbre_exemplaires, now, <<>>)

emprunter_livre(st, b, u, nbre_exemplaires, now) ==
    IF nbre_exemplaires < 1
    THEN [err |-> "ValidationError", st |-> st, crees |-> <<>>]
    ELSE IF nbre_exemplaires >
              limite_emprunts(u) - nombre_emprunts_en_cours(st.users[u])
    THEN [err |-> "LimitExceeded", st |-> st, crees |-> <<>>]
    ELSE IF st.books[b].exemplaire_disponible < nbre_exemplaires
    THEN [err |-> "InsufficientCopies", st |-> st, crees |-> <<>>]
    ELSE EmprunterBoucle(st, b, u, nbre_exemplaires, now, <<>>)

\* variant: a successful return leaves the loan among the active ones
retourner_sans_cloture(st, id_emprunt, b, u) ==
    LET i == LoanIndex(st, id_emprunt) IN
    IF i = 0 THEN [err |-> "NotFound", st |-> st]
    ELSE LET r == Loan_retourner(st, st.loans[i], b, u) IN
         IF r.ok THEN [err |-> "none", st |-> r.st]
         ELSE [err |-> "false", st |-> st]

\* variant: a successful return takes the first reservation out of the queue
retourner_en_servant_la_file(st, id_emprunt, b, u) ==
    LET i == LoanIndex(st, id_emprunt) IN
    IF i = 0 THEN [err |-> "NotFound", st |-> st]
    ELSE LET r == Loan_retourner(st, st.loans[i], b, u) IN
         IF r.ok
         THEN [err |-> "none",
               st |-> [r.st EXCEPT !.loans = RemoveAt(@, i),
                                   !.files_attente[b] =
                                       IF @ = <<>> THEN @ ELSE Tail(@)]]
         ELSE [err |-> "false", st |-> st]

\* err is "none" when True is returned, "false" when False is returned
retourner_livre(st, id_emprunt, b, u) ==
    LET i == LoanIndex(st, id_emprunt) IN
    IF i = 0 THEN [err |-> "NotFound", st |-> st]
    ELSE LET r == Loan_retourner(st, st.loans[i], b, u) IN
         IF r.ok
         THEN [err |-> "none", st |-> [r.st EXCEPT !.loans = RemoveAt(@, i)]]
         ELSE [err |-> "false", st |-> st]

\* variant: a renewal adds a whole loan period
renouveler_d_une_periode(st, id_emprunt) ==
    LET i == LoanIndex(st, id_emprunt) IN
    IF i = 0 THEN [err |-> "false", st |-> st]
    ELSE [err |-> "none",
          st |-> [st EXCEPT !.loans[i].date_retour_prevue =
                      format_date(parse_date(@) + DUREE_EMPRUNT_DEFAUT)]]

\* User.get_emprunt returns a copy of the summary, so the new date written to
\* it by renouveler_emprunt never reaches the user's list
renouveler_emprunt(st, id_emprunt) ==
    LET i == LoanIndex(st, id_emprunt) IN
    IF i = 0 THEN [err |-> "false", st |-> st]
    ELSE [err |-> "none",
          st |-> [st EXCEPT !.loans[i].date_retour_prevue =
                      format_date(parse_date(@) + 1)]]

\* LoanService.detecter_retards: the pair (emprunts_1_jour_avant,
\* emprunts_en_retard)
detecter_retards(st, now) ==
    LET EnRetard(l) == detecter_retard(l, now) > 0
        UnJourAvant(l) == ~(detecter_retard(l, now) > 0)
                              /\ detecter_retard(l, now) = -1
    IN [emprunts_1_jour_avant |-> SelectSeq(st.loans, UnJourAvant),
        emprunts_en_retard |-> SelectSeq(st.loans, EnRetard)]

(***************************************************************************)
(* Reservation (app/models/reservation.py).  resv maps the identifier of   *)
(* every live Reservation object to its fields; files_attente holds, per   *)
(* book, the identifiers in queue order.                                   *)
(***************************************************************************)
NewReservation(id, b, u, date_emprunt, date_retour_prevue, now) ==
    LET de == IF date_emprunt = None THEN now ELSE date_emprunt
        dr == IF date_retour_prevue = None
              THEN format_date(parse_date(de) + DUREE_EMPRUNT_DEFAUT)
              ELSE date_retour_prevue
    IN [id_reservation |-> id, date_reservation |-> now, id_livre |-> b,
        id_utilisateur |-> u, date_emprunt |-> de, date_retour_prevue |-> dr,
        position_file |-> 0]

\* the sort key of ajouter_a_file: r._date_reservation, a string
SortKey(r) == r.date_reservation

KeyLess(s, t) == StrLess(s, t)

\* variant: x is put in front of the entries that have its key
InsertAvantEgaux(q, x, rs) ==
    LET after == {i \in 1..Len(q) : ~KeyLess(SortKey(rs[q[i]]), SortKey(rs[x]))}
        k == IF after = {} THEN Len(q) + 1
             ELSE CHOOSE i \in after : \A j \in after : i <= j
    IN SubSeq(q, 1, k - 1) \o <<x>> \o SubSeq(q, k, Len(q))

\* x put into the sorted list q behind every entry whose key is not greater
InsertStable(q, x, rs) ==
    LET after == {i \in 1..Len(q) : KeyLess(SortKey(rs[x]), SortKey(rs[q[i]]))}
        k == IF after = {} THEN Len(q) + 1
             ELSE CHOOSE i \in after : \A j \in after : i <= j
    IN SubSeq(q, 1, k - 1) \o <<x>> \o SubSeq(q, k, Len(q))

\* list.sort(key=...) : a stable sort
RECURSIVE SortFile(_, _)
SortFile(q, rs) ==
    IF q = <<>> THEN <<>>
    ELSE InsertStable(SortFile(SubSeq(q, 1, Len(q) - 1), rs), q[Len(q)], rs)

IndexIn(q, x) == CHOOSE i \in 1..Len(q) : q[i] = x /\ \A j \in 1..(i - 1) : q[j] # x

InSeq(q, x) == \E i \in 1..Len(q) : q[i] = x

\* variant: the positions are not recomputed
positions_inchangees(rs, q) == rs

\* the Reservation objects after _mettre_a_jour_positions on the queue q
mettre_a_jour_positions(rs, q) ==
    [id \in DOMAIN rs |->
        IF InSeq(q, id) THEN [rs[id] EXCEPT !.position_file = IndexIn(q, id)]
        ELSE rs[id]]

ajouter_a_file(st, r) ==
    LET b == r.id_livre
        rs == [id \in DOMAIN st.resv \cup {r.id_reservation} |->
                  IF id = r.id_reservation THEN r ELSE st.resv[id]]
    IN IF InSeq(st.files_attente[b], r.id_reservation) THEN st
       ELSE LET q == SortFile(Append(st.files_attente[b], r.id_reservation), rs)
            IN [st EXCEPT !.files_attente[b] = q,
                          !.resv = mettre_a_jour_positions(rs, q)]

\* ok is the boolean retirer_de_file returns
retirer_de_file(st, r) ==
    LET b == r.id_livre IN
    IF InSeq(st.files_attente[b], r.id_reservation)
    THEN LET q == RemoveAt(st.files_attente[b],
                           IndexIn(st.files_attente[b], r.id_reservation))
         IN [ok |-> TRUE,
             st |-> [st EXCEPT !.files_attente[b] = q,
                               !.resv = mettre_a_jour_positions(@, q)]]
    ELSE [ok |-> FALSE, st |-> st]

\* variant: a patron already in the queue is not turned away
reserver_sans_controle_doublon(st, r, b, u) ==
    IF b # r.id_livre \/ u # r.id_utilisateur
    THEN [err |-> "ValidationError", st |-> st]
    ELSE IF est_disponible(st.books[b])
    THEN [err |-> "AlreadyAvailable", st |-> st]
    ELSE [err |-> "none",
          st |-> [ajouter_a_file(st, r) EXCEPT !.books[b].statut = "reserve"]]

\* Reservation.reserver: err is "none" when it returns True
Reservation_reserver(st, r, b, u) ==
    IF b # r.id_livre \/ u # r.id_utilisateur
    THEN [err |-> "ValidationError", st |-> st]
    ELSE IF est_disponible(st.books[b])
    THEN [err |-> "AlreadyAvailable", st |-> st]
    ELSE IF \E i \in 1..Len(st.files_attente[b]) :
               st.resv[st.files_attente[b][i]].id_utilisateur = u
    THEN [err |-> "DuplicateReservation", st |-> st]
    ELSE [err |-> "none",
          st |-> [ajouter_a_file(st, r) EXCEPT !.books[b].statut = "reserve"]]

\* variant: the status of the title is left as it is when the queue empties
Reservation_annuler_sans_statut(st, r, b) ==
    LET rm == retirer_de_file(st, r) IN
    IF rm.ok THEN [ok |-> TRUE, st |-> rm.st]
    ELSE [ok |-> FALSE, st |-> st]

\* Reservation.annuler_reservation(livre): ok is the boolean it returns
Reservation_annuler(st, r, b) ==
    LET rm == retirer_de_file(st, r) IN
    IF rm.ok
    THEN [ok |-> TRUE,
          st |-> IF rm.st.files_attente[r.id_livre] = <<>>
                 THEN [rm.st EXCEPT !.books[b].statut =
                          IF rm.st.books[b].exemplaire_disponible > 0 THEN "disponible"
                          ELSE IF rm.st.books[b].exemplaire_disponible = 0
                               THEN "emprunte" ELSE @]
                 ELSE rm.st]
    ELSE [ok |-> FALSE, st |-> st]

(***************************************************************************)
(* ReservationService (app/services/reservation_service.py).               *)
(***************************************************************************)
ReservationIdsInUse(st) ==
    DOMAIN st.resv \cup {st.reservations[i] : i \in 1..Len(st.reservations)}

\* self.reservations.remove(reservation); the object is dropped with it
RemoveReservation(st, id) ==
    [st EXCEPT !.reservations = RemoveAt(@, IndexIn(@, id)),
               !.resv = [x \in DOMAIN @ \ {id} |-> @[x]]]

reserver_livre(st, b, u, date_emprunt, date_retour_prevue, now) ==
    LET r == NewReservation(FreshId(ReservationIdsInUse(st)), b, u,
                            date_emprunt, date_retour_prevue, now)
        res == Reservation_reserver(st, r, b, u)
    IN IF res.err = "none"
       THEN [err |-> "none",
             st |-> [res.st EXCEPT !.reservations = Append(@, r.id_reservation)]]
       ELSE [err |-> res.err, st |-> st]

\* err is "none" when True is returned, "false" when False is returned
annuler_reservation(st, id_reservation, b) ==
    IF ~InSeq(st.reservations, id_reservation)
    THEN [err |-> "NotFound", st |-> st]
    ELSE LET res == Reservation_annuler(st, st.resv[id_reservation], b) IN
         IF res.ok
         THEN [err |-> "none", st |-> RemoveReservation(res.st, id_reservation)]
         ELSE [err |-> "false", st |-> st]

\* variant: the loan is dated as a borrow made today
transformer_avec_dates_du_jour(st, id_reservation) ==
    IF ~InSeq(st.reservations, id_reservation) THEN [err |-> "false", st |-> st]
    ELSE LET reservation == st.resv[id_reservation]
             b == reservation.id_livre
             u == reservation.id_utilisateur
         IN IF b \notin DOMAIN st.books \/ u \notin DOMAIN st.users
            THEN [err |-> "false", st |-> st]
            ELSE IF ~est_disponible(st.books[b]) THEN [err |-> "false", st |-> st]
            ELSE LET emprunt == NewLoan(FreshId(LoanIdsInUse(st)), b, u,
                                        None, None, today)
                     r == Loan_emprunter(st, emprunt, b, u)
                 IN IF r.err # "none" THEN [err |-> "false", st |-> r.st]
                    ELSE LET st1 == [r.st EXCEPT !.loans = Append(@, emprunt)]
                             st2 == Reservation_annuler(st1, reservation, b).st
                         IN [err |-> "none",
                             st |-> RemoveReservation(st2, id_reservation)]

\* err is "none" when True is returned, "false" when False is returned
transformer_reservation_en_emprunt(st, id_reservation) ==
    IF ~InSeq(st.reservations, id_reservation) THEN [err |-> "false", st |-> st]
    ELSE LET reservation == st.resv[id_reservation]
             b == reservation.id_livre
             u == reservation.id_utilisateur
         IN IF b \notin DOMAIN st.books \/ u \notin DOMAIN st.users
            THEN [err |-> "false", st |-> st]
            ELSE IF ~est_disponible(st.books[b]) THEN [err |-> "false", st |-> st]
            ELSE LET emprunt == NewLoan(FreshId(LoanIdsInUse(st)), b, u,
                                        reservation.date_emprunt,
                                        reservation.date_retour_prevue, None)
                     r == Loan_emprunter(st, emprunt, b, u)
                 IN IF r.err # "none" THEN [err |-> "false", st |-> r.st]
                    ELSE LET st1 == [r.st EXCEPT !.loans = Append(@, emprunt)]
                             st2 == Reservation_annuler(st1, reservation, b).st
                         IN [err |-> "none",
                             st |-> RemoveReservation(st2, id_reservation)]

\* variant: the message names the reservation at the end of the queue
notifier_le_dernier(st, log, b) ==
    IF st.files_attente[b] = <<>>
    THEN [ok |-> FALSE, journal |-> log, st |-> st]
    ELSE LET p == st.resv[st.files_attente[b][Len(st.files_attente[b])]] IN
         [ok |-> TRUE,
          journal |-> Append(log, [id_livre |-> b,
                                   id_reservation |-> p.id_reservation,
                                   id_utilisateur |-> p.id_utilisateur,
                                   position_file |-> p.position_file,
                                   date_reservation |-> p.date_reservation]),
          st |-> st]

\* Reservation.notifier_disponibilite: ok is the value returned, journal the
\* file reservation.log after the call (the wall-clock stamp of the message
\* is left out)
notifier_disponibilite(st, log, b) ==
    IF st.files_attente[b] = <<>>
    THEN [ok |-> FALSE, journal |-> log, st |-> st]
    ELSE LET p == st.resv[st.files_attente[b][1]] IN
         [ok |-> TRUE,
          journal |-> Append(log, [id_livre |-> b,
                                   id_reservation |-> p.id_reservation,
                                   id_utilisateur |-> p.id_utilisateur,
                                   position_file |-> p.position_file,
                                   date_reservation |-> p.date_reservation]),
          st |-> st]

traiter_retour_livre(st, log, b) ==
    IF st.files_attente[b] # <<>>
    THEN LET r == notifier_disponibilite(st, log, b) IN
         IF r.ok THEN r ELSE [ok |-> FALSE, journal |-> r.journal, st |-> r.st]
    ELSE [ok |-> FALSE, journal |-> log, st |-> st]

\* the loop of verifier_et_notifier_disponibilites over the books bs
RECURSIVE NotifierLivres(_, _, _)
NotifierLivres(st, log, bs) ==
    IF bs = {} THEN log
    ELSE LET b == CHOOSE x \in bs : TRUE
             l == IF est_disponible(st.books[b])
                  THEN notifier_disponibilite(st, log, b).journal ELSE log
         IN NotifierLivres(st, l, bs \ {b})

verifier_et_notifier_disponibilites(st, log) ==
    LET l == NotifierLivres(st, log, DOMAIN st.books) IN
    [notifications |-> Len(l) - Len(log), journal |-> l, st |-> st]

(***************************************************************************)
(* The machine.                                                            *)
(***************************************************************************)
RECURSIVE SumOver(_, _)
SumOver(f, S) ==
    IF S = {} THEN 0
    ELSE LET x == CHOOSE y \in S : TRUE IN f[x] + SumOver(f, S \ {x})

\* loans made so far and copies owned, over all books: a run lends every
\* copy once and MaxReemprunts more
TotalCompteur(st) ==
    SumOver([b \in DOMAIN st.books |-> st.books[b].compteur_emprunt], DOMAIN st.books)

TotalExemplaires(st) ==
    SumOver([b \in DOMAIN st.books |-> st.books[b].nbre_exemplaire_total],
            DOMAIN st.books)

CompteurBorne(st) == TotalCompteur(st) <= TotalExemplaires(st) + MaxReemprunts

InitWith(bs, us) ==
    /\ books = bs
    /\ users = [u \in us |-> NewUser]
    /\ loans = <<>>
    /\ resv = <<>>
    /\ reservations = <<>>
    /\ files_attente = [b \in DOMAIN bs |-> <<>>]
    /\ today = <<15, 1, 2025>>
    /\ journal = <<>>

\* one title of two copies and one patron of each type
Init == InitWith("b1" :> NewBook(2), Users)

\* one title with one copy more than a student may hold, a student and a
\* member of the administrative staff
InitLimite == InitWith("b1" :> NewBook(LIMITE_EMPRUNTS_ETUDIANT + 1), {"u1", "u3"})

\* one title of two copies, a student and a member of the administrative staff
InitCatalog == InitWith("b1" :> NewBook(2), {"u1", "u3"})

Apply(st) ==
    /\ books' = st.books
    /\ users' = st.users
    /\ loans' = st.loans
    /\ resv' = st.resv
    /\ reservations' = st.reservations
    /\ files_attente' = st.files_attente

\* the numbers of copies a caller asks for: none, and up to one too many
Demandes(b) == 0..(books[b].nbre_exemplaire_total + 1)

Borrow(b, u, n) ==
    LET r == emprunter_livre(St, b, u, n, today) IN
    /\ CompteurBorne(r.st)
    /\ Apply(r.st)
    /\ UNCHANGED <<today, journal>>

Return(id, b, u) ==
    /\ Apply(retourner_livre(St, id, b, u).st)
    /\ UNCHANGED <<today, journal>>

\* days by which the loans of st run beyond the default duration
JoursAjoutes(st) ==
    SumOver([i \in 1..Len(st.loans) |->
                parse_date(st.loans[i].date_retour_prevue)
                  - parse_date(st.loans[i].date_emprunt) - DUREE_EMPRUNT_DEFAUT],
            1..Len(st.loans))

Renew(id) ==
    LET r == renouveler_emprunt(St, id) IN
    /\ JoursAjoutes(r.st) <= MaxRenouvellements
    /\ Apply(r.st)
    /\ UNCHANGED <<today, journal>>

\* the dates a caller of reserver_livre supplies: none (the defaults)
DatesSouhaitees(now) ==
    {<<None, None>>}

Reserve(b, u, dates) ==
    /\ Apply(reserver_livre(St, b, u, dates[1], dates[2], today).st)
    /\ UNCHANGED <<today, journal>>

\* the caller passes the book of the reservation (main.py); with an unknown
\* identifier any book
Cancel(id, b) ==
    /\ id \in DOMAIN resv => b = resv[id].id_livre
    /\ Apply(annuler_reservation(St, id, b).st)
    /\ UNCHANGED <<today, journal>>

Promote(id) ==
    LET r == transformer_reservation_en_emprunt(St, id) IN
    /\ CompteurBorne(r.st)
    /\ Apply(r.st)
    /\ UNCHANGED <<today, journal>>

Tick ==
    /\ \E d \in ClockDates : parse_date(d) > parse_date(today) /\ today' = d
    /\ UNCHANGED <<books, users, loans, resv, reservations, files_attente, journal>>

\* identifiers a caller can pass: those in use and one that is not
LoanIdArgs == LoanIdsInUse(St) \cup {FreshId(LoanIdsInUse(St))}

ReservationIdArgs == ReservationIdsInUse(St) \cup {FreshId(ReservationIdsInUse(St))}

\* the operations of the loan and reservation services
Engine ==
    \/ \E b \in DOMAIN books, u \in DOMAIN users :
          \E n \in Demandes(b) : Borrow(b, u, n)
    \/ \E id \in LoanIdArgs, b \in DOMAIN books, u \in DOMAIN users : Return(id, b, u)
    \/ \E b \in DOMAIN books, u \in DOMAIN users, d \in DatesSouhaitees(today) :
          Reserve(b, u, d)
    \/ \E id \in ReservationIdArgs, b \in DOMAIN books : Cancel(id, b)
    \/ \E id \in ReservationIdArgs : Promote(id)

Next ==
    \/ Engine
    \/ Tick

Spec == Init /\ [][Next]_vars

\* modifier_livre_menu (main.py): a number of copies and a status are typed,
\* each <<v>> or left blank (None); a rejected value leaves its field as it was
modifier_livre(bk, nbre, statut) ==
    LET bk1 == IF nbre = None THEN bk
               ELSE set_nbre_exemplaire_total(bk, nbre[1]).bk
    IN IF statut # None /\ statut[1] \in BookStatus
       THEN [bk1 EXCEPT !.statut = statut[1]] ELSE bk1

ModifierLivre(b, nbre, statut) ==
    /\ books' = [books EXCEPT ![b] = modifier_livre(@, nbre, statut)]
    /\ UNCHANGED <<users, loans, resv, reservations, files_attente, today, journal>>

\* what the librarian types in the editor
NombresSaisis == {None} \cup {<<v>> : v \in 0..MaxTotal}

StatutsSaisis == {None} \cup {<<s>> : s \in BookStatus}

NextCatalog ==
    \/ Engine
    \/ \E b \in DOMAIN books, nbre \in NombresSaisis, statut \in StatutsSaisis :
          ModifierLivre(b, nbre, statut)

SpecCatalog == InitCatalog /\ [][NextCatalog]_vars

\* the editor used for the status only
NextStatut ==
    \/ Engine
    \/ \E b \in DOMAIN books, statut \in BookStatus : ModifierLivre(b, None, <<statut>>)

SpecStatut == Init /\ [][NextStatut]_vars

\* load_environment sets DATE_ACTUEL once at start-up: a run on a single day,
\* in which the editor is used to mark a title lost and to put it back
NextLimite ==
    \/ Engine
    \/ \E id \in LoanIdArgs : Renew(id)
    \/ \E b \in DOMAIN books, statut \in {"perdu", "disponible"} :
          ModifierLivre(b, None, <<statut>>)

SpecLimite == InitLimite /\ [][NextLimite]_vars

\* menu_reserver_livre_indisponible (main.py): the borrow date typed is the
\* earliest the menu accepts, today or the latest due date of the title's
\* loans, and the due date is three weeks later
DatesMenu(b) ==
    LET dus == {parse_date(loans[i].date_retour_prevue) :
                    i \in {j \in 1..Len(loans) : loans[j].id_livre = b}}
        tard == {n \in dus : n > parse_date(today)}
        d == IF tard = {} THEN parse_date(today)
             ELSE CHOOSE n \in tard : \A m \in tard : m <= n
    IN <<format_date(d), format_date(d + DUREE_RESERVATION_MENU)>>

\* a title of two copies and a title of one copy, a student and a teacher
InitDeuxLivres ==
    InitWith(("b1" :> NewBook(2)) @@ ("b2" :> NewBook(1)), {"u1", "u2"})

\* loans and returns over two titles, the return being given any title and
\* any patron
NextRetour ==
    \/ \E b \in DOMAIN books, u \in DOMAIN users :
          \E n \in Demandes(b) : Borrow(b, u, n)
    \/ \E id \in LoanIdArgs, b \in DOMAIN books, u \in DOMAIN users : Return(id, b, u)

SpecRetour == InitDeuxLivres /\ [][NextRetour]_vars

\* a title of one copy and the three patrons: the queue over two days
InitFile == InitWith("b1" :> NewBook(1), Users)

SpecFile == InitFile /\ [][Next]_vars

\* the loan and reservation menus and the catalogue editor changing the
\* number of copies only
NextTotal ==
    \/ Engine
    \/ \E b \in DOMAIN books, nbre \in NombresSaisis : ModifierLivre(b, nbre, None)

SpecTotal == InitCatalog /\ [][NextTotal]_vars

\* the application is started again: BookService._load_books rebuilds every
\* book from the record _save_books wrote; the stored records of the loans,
\* the patrons and the reservations hold every field kept here, and the
\* queues are rebuilt from the reservations in the same order
Redemarrer ==
    /\ books' = [b \in DOMAIN books |-> Book_from_dict(Book_to_dict(books[b]))]
    /\ UNCHANGED <<users, loans, resv, reservations, files_attente, today, journal>>

\* the loan and reservation menus across restarts of the application
NextRecharge ==
    \/ Engine
    \/ Redemarrer

SpecRecharge == InitCatalog /\ [][NextRecharge]_vars

\* DATE_ACTUEL moves on to a date around the due dates
TickEcheance ==
    /\ \E d \in DatesEcheance : parse_date(d) > parse_date(today) /\ today' = d
    /\ UNCHANGED <<books, users, loans, resv, reservations, files_attente, journal>>

\* menu_detection_retards: the penalty of every loan listed as late is
\* computed at the default rate and kept in the loan
MenuDetectionRetards ==
    LET r == detecter_retards(St, today)
        late == {r.emprunts_en_retard[i].id_emprunt :
                     i \in 1..Len(r.emprunts_en_retard)}
    IN /\ loans' = [i \in 1..Len(loans) |->
                       IF loans[i].id_emprunt \in late
                       THEN calculer_penalites(loans[i], today,
                                               TAUX_PAR_JOUR_DEFAUT).loan
                       ELSE loans[i]]
       /\ UNCHANGED <<books, users, resv, reservations, files_attente, today,
                      journal>>

\* loans, returns and renewals while the days pass beyond the due dates
NextRetard ==
    \/ \E b \in DOMAIN books, u \in DOMAIN users :
          \E n \in Demandes(b) : Borrow(b, u, n)
    \/ \E id \in LoanIdArgs, b \in DOMAIN books, u \in DOMAIN users : Return(id, b, u)
    \/ \E id \in LoanIdArgs : Renew(id)
    \/ TickEcheance
    \/ MenuDetectionRetards

SpecRetard == InitCatalog /\ [][NextRetard]_vars

\* the loan and reservation menus with renewals, nothing being edited in the
\* catalogue
NextRenouv ==
    \/ Engine
    \/ \E id \in LoanIdArgs : Renew(id)

SpecRenouv == Init /\ [][NextRenouv]_vars

\* menu_retourner_livre: the return, and on success the notification of
\* the first reserver
MenuRetourner(id, b, u) ==
    LET r == retourner_livre(St, id, b, u)
        n == IF r.err = "none" THEN traiter_retour_livre(r.st, journal, b)
             ELSE [ok |-> FALSE, journal |-> journal, st |-> r.st]
    IN /\ Len(n.journal) <= MaxNotifications
       /\ Apply(n.st)
       /\ journal' = n.journal
       /\ UNCHANGED today

\* menu_verifier_notifications
VerifierEtNotifier ==
    LET n == verifier_et_notifier_disponibilites(St, journal) IN
    /\ Len(n.journal) <= MaxNotifications
    /\ Apply(n.st)
    /\ journal' = n.journal
    /\ UNCHANGED today

\* the loan and reservation menus with their notifications, the title being
\* put back to available in the catalogue
NextNotify ==
    \/ \E b \in DOMAIN books, u \in DOMAIN users :
          \E n \in Demandes(b) : Borrow(b, u, n)
    \/ \E id \in LoanIdArgs, b \in DOMAIN books, u \in DOMAIN users :
          MenuRetourner(id, b, u)
    \/ \E b \in DOMAIN books, u \in DOMAIN users, d \in DatesSouhaitees(today) :
          Reserve(b, u, d)
    \/ \E id \in ReservationIdArgs, b \in DOMAIN books : Cancel(id, b)
    \/ \E id \in ReservationIdArgs : Promote(id)
    \/ VerifierEtNotifier
    \/ \E b \in DOMAIN books : ModifierLivre(b, None, <<"disponible">>)

SpecNotify == InitCatalog /\ [][NextNotify]_vars

\* reservations made through the service with its default dates and through
\* the menu, the title being put back to available in the catalogue
NextDates ==
    \/ Engine
    \/ \E b \in DOMAIN books : ModifierLivre(b, None, <<"disponible">>)
    \/ \E b \in DOMAIN books, u \in DOMAIN users : Reserve(b, u, DatesMenu(b))

SpecDates == InitCatalog /\ [][NextDates]_vars

(***************************************************************************)
(* Properties.                                                             *)
(***************************************************************************)

\* C1: every successful Borrow(title, patron, n) has n >= 1, lowers the
\* title's available copies by exactly n, raises the patron's number of
\* active loans by exactly n and appends exactly n new loans of that title
\* and patron to the active set, each due 30 days after its borrow date.
C1_BorrowEffects ==
    \A b \in DOMAIN books, u \in DOMAIN users : \A n \in Demandes(b) :
        LET r == emprunter_livre(St, b, u, n, today)
            nouveaux == (Len(loans) + 1)..Len(r.st.loans)
        IN r.err = "none" =>
            /\ n >= 1
            /\ r.st.books[b].exemplaire_disponible
                  = books[b].exemplaire_disponible - n
            /\ nombre_emprunts_en_cours(r.st.users[u])
                  = nombre_emprunts_en_cours(users[u]) + n
            /\ Len(r.st.loans) = Len(loans) + n
            /\ SubSeq(r.st.loans, 1, Len(loans)) = loans
            /\ \A i \in nouveaux :
                  /\ r.st.loans[i].id_livre = b
                  /\ r.st.loans[i].id_utilisateur = u
                  /\ r.st.loans[i].id_emprunt \notin LoanIdsInUse(St)
                  /\ r.st.loans[i].date_emprunt = today
                  /\ parse_date(r.st.loans[i].date_retour_prevue)
                        = parse_date(r.st.loans[i].date_emprunt) + 30
                  /\ \A j \in nouveaux :
                        r.st.loans[i].id_emprunt = r.st.loans[j].id_emprunt => i = j

\* on the second day of the run a patron borrows two copies of a title that
\* has been lent before
C1_Witness ==
    /\ today = <<1, 2, 2025>>
    /\ \E b \in DOMAIN books, u \in DOMAIN users :
          /\ emprunter_livre(St, b, u, 2, today).err = "none"
          /\ books[b].compteur_emprunt >= 1

\* C2 as stated: every successful Return(loan, title, patron) raises the
\* title's available copies by exactly 1 without exceeding the total, removes
\* the loan from the active set and its summary from the patron's list.
C2_ReturnExactlyOne ==
    \A id \in LoanIdArgs, b \in DOMAIN books, u \in DOMAIN users :
        LET r == retourner_livre(St, id, b, u) IN
        r.err = "none" =>
            /\ r.st.books[b].exemplaire_disponible
                  = books[b].exemplaire_disponible + 1
            /\ r.st.books[b].exemplaire_disponible
                  <= r.st.books[b].nbre_exemplaire_total
            /\ LoanIndex(r.st, id) = 0
            /\ ~HasEmprunt(r.st.users[u], id)

\* C2 amended: every successful Return(loan, title, patron) raises the
\* title's available copies by 1 when they are below the total and leaves
\* them as they are when they already equal the total; they never exceed the
\* total; the loan leaves the active set (which shrinks by one) and its
\* summary leaves the patron's list (which shrinks by one).
C2_ReturnCapped ==
    \A id \in LoanIdArgs, b \in DOMAIN books, u \in DOMAIN users :
        LET r == retourner_livre(St, id, b, u) IN
        r.err = "none" =>
            /\ r.st.books[b].exemplaire_disponible
                  = IF books[b].exemplaire_disponible < books[b].nbre_exemplaire_total
                    THEN books[b].exemplaire_disponible + 1
                    ELSE books[b].exemplaire_disponible
            /\ r.st.books[b].exemplaire_disponible
                  <= r.st.books[b].nbre_exemplaire_total
            /\ r.st.books[b].nbre_exemplaire_total = books[b].nbre_exemplaire_total
            /\ LoanIndex(r.st, id) = 0
            /\ Len(r.st.loans) = Len(loans) - 1
            /\ ~HasEmprunt(r.st.users[u], id)
            /\ Len(r.st.users[u].list_emprunt) = Len(users[u].list_emprunt) - 1

\* a loan is returned while every copy of its title is already counted as
\* available
C2_Witness ==
    \E id \in LoanIdArgs, b \in DOMAIN books, u \in DOMAIN users :
        /\ retourner_livre(St, id, b, u).err = "none"
        /\ books[b].exemplaire_disponible = books[b].nbre_exemplaire_total

\* C3: a successful Borrow of n copies followed by the Return of each of the
\* n loans it created (every one of which succeeds) restores the title's
\* available copies and the patron's number of active loans.
C3_RoundTrip ==
    \A b \in DOMAIN books, u \in DOMAIN users : \A n \in Demandes(b) :
        LET r == emprunter_livre(St, b, u, n, today)
            RECURSIVE Rendre(_, _)
            Rendre(acc, ids) ==
                IF ids = <<>> THEN acc
                ELSE LET x == retourner_livre(acc.st, Head(ids), b, u)
                     IN Rendre([ok |-> acc.ok /\ x.err = "none", st |-> x.st],
                               Tail(ids))
            fin == Rendre([ok |-> TRUE, st |-> r.st], r.crees)
        IN r.err = "none" =>
            /\ Len(r.crees) = n
            /\ fin.ok
            /\ fin.st.books[b].exemplaire_disponible = books[b].exemplaire_disponible
            /\ nombre_emprunts_en_cours(fin.st.users[u])
                  = nombre_emprunts_en_cours(users[u])

\* a patron who has borrowed and returned before borrows two copies at once
C3_Witness ==
    \E b \in DOMAIN books, u \in DOMAIN users :
        /\ users[u].nombre_emprunt_total >= 1
        /\ Len(emprunter_livre(St, b, u, 2, today).crees) = 2

\* C4: for every title, available copies plus the number of active loans of
\* the title equal the total number of copies; and whatever Borrow or
\* PromoteToLoan adds to the active set, it takes as many copies from the
\* title's available copies.
C4_CopyConservation ==
    LET Prets(st, b) == Cardinality({i \in 1..Len(st.loans) : st.loans[i].id_livre = b})
        Compte(st, r) ==
            \A b \in DOMAIN books :
                r.books[b].exemplaire_disponible
                    = st.books[b].exemplaire_disponible - (Prets(r, b) - Prets(st, b))
    IN /\ \A b \in DOMAIN books :
            books[b].exemplaire_disponible + Prets(St, b)
                = books[b].nbre_exemplaire_total
       /\ \A b \in DOMAIN books, u \in DOMAIN users : \A n \in Demandes(b) :
            LET r == emprunter_livre(St, b, u, n, today).st
            IN Len(r.loans) >= Len(loans) /\ Compte(St, r)
       /\ \A id \in ReservationIdArgs :
            LET r == transformer_reservation_en_emprunt(St, id).st
            IN Len(r.loans) >= Len(loans) /\ Compte(St, r)

\* a reservation can be turned into a loan while another copy is on loan
C4_Witness ==
    /\ Len(loans) >= 1
    /\ \E id \in ReservationIdArgs :
          transformer_reservation_en_emprunt(St, id).err = "none"

\* C5: for every title the positions of the reservations in its queue are
\* their ranks 1..N in the queue, no reservation is queued twice, every
\* reservation of the title is in its queue and no other is.
C5_QueuePositions ==
    \A b \in DOMAIN books :
        LET q == files_attente[b] IN
        /\ \A i \in 1..Len(q) :
              /\ q[i] \in DOMAIN resv
              /\ resv[q[i]].id_livre = b
              /\ resv[q[i]].position_file = i
        /\ \A i, j \in 1..Len(q) : q[i] = q[j] => i = j
        /\ \A id \in DOMAIN resv : resv[id].id_livre = b => InSeq(q, id)

\* two reservations wait behind one that has left the queue
C5_Witness ==
    \E b \in DOMAIN books :
        /\ Len(files_attente[b]) = 2
        /\ ~InSeq(files_attente[b], 1)
        /\ resv[files_attente[b][2]].position_file = 2

\* C6 as stated: in every reachable state each title's queue is in calendar
\* order of reservation date: of two reservations of a title, the one made on
\* the earlier day has the smaller position.
C6_QueueCalendarOrder ==
    \A x, y \in DOMAIN resv :
        /\ resv[x].id_livre = resv[y].id_livre
        /\ parse_date(resv[x].date_reservation) < parse_date(resv[y].date_reservation)
        => resv[x].position_file < resv[y].position_file

\* the reservation made on 01/02/2025 stands before the one made on 15/01/2025
C6_Witness ==
    \E x, y \in DOMAIN resv :
        /\ resv[x].id_livre = resv[y].id_livre
        /\ resv[x].date_reservation = <<15, 1, 2025>>
        /\ resv[y].date_reservation = <<1, 2, 2025>>
        /\ resv[y].position_file = 1
        /\ resv[x].position_file = 2

\* C7 as stated: whenever a title has a copy available, whatever its status,
\* Reserve fails with AlreadyAvailable and changes nothing.
C7_ReserveRejectedWithCopies ==
    \A b \in DOMAIN books, u \in DOMAIN users :
        books[b].exemplaire_disponible > 0 =>
            LET r == reserver_livre(St, b, u, None, None, today) IN
            r.err = "AlreadyAvailable" /\ r.st = St

\* a title with a copy back on the shelf and a waiting reservation takes one
\* more reservation
C7_Witness ==
    \E b \in DOMAIN books, u \in DOMAIN users :
        /\ books[b].exemplaire_disponible > 0
        /\ books[b].statut = "reserve"
        /\ files_attente[b] # <<>>
        /\ reserver_livre(St, b, u, None, None, today).err = "none"

\* C8: no patron holds two reservations of one title, and a Reserve by a
\* patron who is in the title's queue fails and changes nothing: with
\* DuplicateReservation, unless the title has been put back to available
\* (status "disponible" and a copy), which is refused first.
C8_OneReservationPerPatron ==
    /\ \A x, y \in DOMAIN resv :
          /\ resv[x].id_livre = resv[y].id_livre
          /\ resv[x].id_utilisateur = resv[y].id_utilisateur
          => x = y
    /\ \A b \in DOMAIN books, u \in DOMAIN users :
          (\E x \in DOMAIN resv : resv[x].id_livre = b /\ resv[x].id_utilisateur = u)
          => LET r == reserver_livre(St, b, u, None, None, today) IN
             /\ r.st = St
             /\ r.err = IF est_disponible(books[b]) THEN "AlreadyAvailable"
                        ELSE "DuplicateReservation"
             /\ books[b].statut = "reserve" => r.err = "DuplicateReservation"

\* a patron in second place of a queue asks for the same title again
C8_Witness ==
    \E x \in DOMAIN resv :
        /\ resv[x].position_file = 2
        /\ reserver_livre(St, resv[x].id_livre, resv[x].id_utilisateur,
                           None, None, today).err = "DuplicateReservation"

\* C9: a Borrow of more copies than the patron's limit leaves after the
\* active loans fails with LimitExceeded and changes nothing; a student with
\* 4 active loans cannot borrow 1, a member of staff cannot borrow at all.
C9_LimitExceeded ==
    \A b \in DOMAIN books, u \in DOMAIN users :
        /\ \A n \in Demandes(b) :
              n > limite_emprunts(u) - nombre_emprunts_en_cours(users[u]) =>
                  LET r == emprunter_livre(St, b, u, n, today) IN
                  r.err = "LimitExceeded" /\ r.st = St /\ r.crees = <<>>
        /\ type_utilisateur(u) = "Etudiant" /\ nombre_emprunts_en_cours(users[u]) = 4
              => emprunter_livre(St, b, u, 1, today).err = "LimitExceeded"
        /\ type_utilisateur(u) = "Personnel_admin"
              => \A n \in Demandes(b) \ {0} :
                    emprunter_livre(St, b, u, n, today).err = "LimitExceeded"

\* a student holding 4 loans is refused one more copy of a title that is
\* available
C9_Witness ==
    \E b \in DOMAIN books, u \in DOMAIN users :
        /\ type_utilisateur(u) = "Etudiant"
        /\ nombre_emprunts_en_cours(users[u]) = 4
        /\ est_disponible(books[b])
        /\ emprunter_livre(St, b, u, 1, today).err = "LimitExceeded"

\* C10: the list of active loans of a patron is never longer than the limit
\* of the patron's type: 4 for a student, 6 for a teacher, 0 for staff.
C10_ListWithinLimit ==
    \A u \in DOMAIN users :
        /\ Len(users[u].list_emprunt) <= limite_emprunts(u)
        /\ Len(users[u].list_emprunt)
              <= CASE type_utilisateur(u) = "Etudiant" -> 4
                   [] type_utilisateur(u) = "Enseignant" -> 6
                   [] OTHER -> 0

\* a student holds 4 loans, one of them renewed, while a member of staff is
\* first in the queue of a title that is available
C10_Witness ==
    /\ \E u \in DOMAIN users :
          /\ type_utilisateur(u) = "Etudiant"
          /\ Len(users[u].list_emprunt) = 4
    /\ JoursAjoutes(St) >= 1
    /\ \E x \in DOMAIN resv :
          /\ type_utilisateur(resv[x].id_utilisateur) = "Personnel_admin"
          /\ resv[x].position_file = 1

\* C11 as stated: whenever a title with a reservation queue has a copy
\* available again, PromoteToLoan on the position-1 reservation of a patron
\* below the limit succeeds: one loan is created, a copy is taken, the
\* reservation is removed and every other reservation moves up by one.
C11_PromoteAfterReturn ==
    \A id \in DOMAIN resv :
        LET b == resv[id].id_livre
            u == resv[id].id_utilisateur
            r == transformer_reservation_en_emprunt(St, id)
        IN /\ resv[id].position_file = 1
           /\ books[b].exemplaire_disponible > 0
           /\ peut_emprunter(users[u], u)
           => /\ r.err = "none"
              /\ Len(r.st.loans) = Len(loans) + 1
              /\ r.st.books[b].exemplaire_disponible
                    = books[b].exemplaire_disponible - 1
              /\ id \notin DOMAIN r.st.resv
              /\ \A x \in DOMAIN resv \ {id} :
                    resv[x].id_livre = b =>
                        r.st.resv[x].position_file = resv[x].position_file - 1

\* after a return a title has a copy and a teacher first in its queue, and
\* the promotion of that reservation is refused
C11_Witness ==
    \E id \in DOMAIN resv :
        /\ resv[id].position_file = 1
        /\ type_utilisateur(resv[id].id_utilisateur) = "Enseignant"
        /\ books[resv[id].id_livre].exemplaire_disponible > 0
        /\ books[resv[id].id_livre].compteur_emprunt >= 1
        /\ transformer_reservation_en_emprunt(St, id).err = "false"

\* C12 as stated: Borrow(title, patron, n) succeeds whenever
\* 1 <= n <= available copies and n <= limit - active loans, whatever the
\* title's status.
C12_CountDecidesBorrow ==
    \A b \in DOMAIN books, u \in DOMAIN users : \A n \in Demandes(b) :
        /\ 1 <= n
        /\ n <= books[b].exemplaire_disponible
        /\ n <= limite_emprunts(u) - nombre_emprunts_en_cours(users[u])
        => emprunter_livre(St, b, u, n, today).err = "none"

\* a title with status "reserve" has a copy on the shelf, and a teacher
\* without loans is refused that copy
C12_Witness ==
    \E b \in DOMAIN books, u \in DOMAIN users :
        /\ books[b].statut = "reserve"
        /\ books[b].exemplaire_disponible >= 1
        /\ type_utilisateur(u) = "Enseignant"
        /\ nombre_emprunts_en_cours(users[u]) = 0
        /\ emprunter_livre(St, b, u, 1, today).err = "NotAvailable"
        /\ emprunter_livre(St, b, u, 1, today).st = St

\* C13: a PromoteToLoan call fails when the id is unknown, when the title has
\* no copy available or when the patron is at the limit, and every call that
\* fails creates no loan and leaves reservations, queues, positions, the
\* title and the patrons as they were.
C13_FailedPromoteChangesNothing ==
    \A id \in ReservationIdArgs :
        LET r == transformer_reservation_en_emprunt(St, id) IN
        /\ r.err # "none" => r.st = St
        /\ id \notin DOMAIN resv => r.err = "false"
        /\ id \in DOMAIN resv =>
              LET b == resv[id].id_livre
                  u == resv[id].id_utilisateur
              IN /\ books[b].exemplaire_disponible = 0 => r.err = "false"
                 /\ ~peut_emprunter(users[u], u) => r.err = "false"

\* a member of staff is first in the queue of a title that is available
\* again, and the promotion fails on the borrowing limit
C13_Witness ==
    \E id \in DOMAIN resv :
        /\ resv[id].position_file = 1
        /\ est_disponible(books[resv[id].id_livre])
        /\ ~peut_emprunter(users[resv[id].id_utilisateur], resv[id].id_utilisateur)
        /\ transformer_reservation_en_emprunt(St, id).err = "false"
        /\ Len(files_attente[resv[id].id_livre]) >= 2

\* C14: a successful promotion creates a loan whose borrow date and due date
\* are the desired dates stored in the reservation, and the summary of this
\* loan in the patron's list carries the same two dates
C14_PromotedLoanDates ==
    \A id \in DOMAIN resv :
        LET r == transformer_reservation_en_emprunt(St, id)
            u == resv[id].id_utilisateur
        IN r.err = "none" =>
            LET l == r.st.loans[Len(r.st.loans)]
                s == r.st.users[u].list_emprunt
                k == {i \in 1..Len(s) : s[i].id_emprunt = l.id_emprunt}
            IN /\ Len(r.st.loans) = Len(loans) + 1
               /\ l.id_livre = resv[id].id_livre
               /\ l.id_utilisateur = u
               /\ l.date_emprunt = resv[id].date_emprunt
               /\ l.date_retour_prevue = resv[id].date_retour_prevue
               /\ Cardinality(k) = 1
               /\ Len(s) = Len(users[u].list_emprunt) + 1
               /\ \A i \in k : /\ s[i].date_emprunt = resv[id].date_emprunt
                               /\ s[i].date_retour_prevue = resv[id].date_retour_prevue

\* a reservation made in the menu, with desired dates that are neither today
\* nor today plus the default loan period, can be promoted
C14_Witness ==
    \E id \in DOMAIN resv :
        /\ transformer_reservation_en_emprunt(St, id).err = "none"
        /\ resv[id].date_emprunt # today
        /\ resv[id].date_retour_prevue #
               format_date(parse_date(today) + DUREE_EMPRUNT_DEFAUT)
        /\ parse_date(resv[id].date_retour_prevue) =
               parse_date(resv[id].date_emprunt) + DUREE_RESERVATION_MENU

\* C15: a return, successful or not, leaves every reservation, every queue
\* and every position as they were and creates no loan, whatever the title's
\* queue holds: promotion is never part of a return
C15_ReturnNeverPromotes ==
    \A id \in LoanIdArgs, b \in DOMAIN books, u \in DOMAIN users :
        LET r == retourner_livre(St, id, b, u) IN
        /\ r.st.resv = resv
        /\ r.st.reservations = reservations
        /\ r.st.files_attente = files_attente
        /\ Len(r.st.loans) <= Len(loans)
        /\ \A i \in 1..Len(r.st.loans) :
               \E j \in 1..Len(loans) : r.st.loans[i] = loans[j]
        /\ r.err = "none" => Len(r.st.loans) = Len(loans) - 1

\* a copy comes back to a title that is available and whose first reserver
\* could borrow it: the promotion would succeed right after the return
C15_Witness ==
    \E id \in LoanIdArgs, b \in DOMAIN books, u \in DOMAIN users :
        LET r == retourner_livre(St, id, b, u) IN
        /\ r.err = "none"
        /\ files_attente[b] # <<>>
        /\ est_disponible(r.st.books[b])
        /\ transformer_reservation_en_emprunt(r.st, files_attente[b][1]).err = "none"

\* C16: the notification of a title returns false and writes nothing when
\* the title's queue is empty; otherwise it writes exactly one message, which
\* names the reservation at position 1 of that title; in both cases the
\* reservations, queues, positions, copy counts, status and loans are left as
\* they were.  The notification made after a return is the same call.
C16_NotifyAdvisory ==
    \A b \in DOMAIN books :
        LET r == notifier_disponibilite(St, journal, b)
            n == Len(journal)
        IN /\ r.st = St
           /\ files_attente[b] = <<>> => ~r.ok /\ r.journal = journal
           /\ files_attente[b] # <<>> =>
                /\ r.ok
                /\ Len(r.journal) = n + 1
                /\ SubSeq(r.journal, 1, n) = journal
                /\ r.journal[n + 1].id_livre = b
                /\ r.journal[n + 1].id_reservation = files_attente[b][1]
                /\ r.journal[n + 1].position_file = 1
                /\ resv[files_attente[b][1]].position_file = 1
                /\ resv[files_attente[b][1]].id_livre = b
                /\ r.journal[n + 1].id_utilisateur =
                       resv[files_attente[b][1]].id_utilisateur
           /\ traiter_retour_livre(St, journal, b) = r

\* a message was written for a title whose queue holds two reservations,
\* and it names the one that is still first
C16_Witness ==
    \E b \in DOMAIN books :
        /\ Len(files_attente[b]) >= 2
        /\ journal # <<>>
        /\ journal[Len(journal)].id_reservation = files_attente[b][1]
        /\ notifier_disponibilite(St, journal, b).ok

RECURSIVE RenouvelerFois(_, _, _)
RenouvelerFois(st, id, k) ==
    IF k = 0 THEN st ELSE RenouvelerFois(renouveler_emprunt(st, id).st, id, k - 1)

\* st, reached by k renewals of the i-th loan, differs from the current state
\* by a due date k days later and by nothing else, and so do the states
\* reached by the renewals that follow, up to MaxSuccessifs in all
RECURSIVE DecalageExact(_, _, _, _)
DecalageExact(st, id, i, k) ==
    /\ parse_date(st.loans[i].date_retour_prevue)
           = parse_date(loans[i].date_retour_prevue) + k
    /\ st = [St EXCEPT !.loans[i].date_retour_prevue =
                           st.loans[i].date_retour_prevue]
    /\ k < MaxSuccessifs =>
           LET r == renouveler_emprunt(st, id) IN
           r.err = "none" /\ DecalageExact(r.st, id, i, k + 1)

\* C19: a renewal of an active loan moves the due date of that loan exactly
\* one day later, and k renewals exactly k days; it changes no copy count,
\* no status, no queue and no other loan, and the same loans stay active; a
\* renewal of an unknown loan returns false and changes nothing
C19_RenewOneDay ==
    \A id \in LoanIdArgs :
        LET r == renouveler_emprunt(St, id)
            i == LoanIndex(St, id)
        IN /\ i = 0 => r.err = "false" /\ r.st = St
           /\ i # 0 => r.err = "none" /\ DecalageExact(St, id, i, 0)

\* a loan due in February has been renewed while another loan and a
\* reservation exist, and its next renewals take the due date into March
C19_Witness ==
    \E i \in 1..Len(loans) :
        /\ parse_date(loans[i].date_retour_prevue)
               = parse_date(loans[i].date_emprunt) + DUREE_EMPRUNT_DEFAUT + 1
        /\ Len(loans) >= 2
        /\ reservations # <<>>
        /\ loans[i].date_retour_prevue[2] = 2
        /\ RenouvelerFois(St, loans[i].id_emprunt, MaxSuccessifs)
               .loans[i].date_retour_prevue[2] = 3

\* C20: for every active loan, the patron who borrowed it holds a summary
\* with the same identifier, and the due date of this summary is the due
\* date of the loan, renewals included
C20_SummaryDueDate ==
    \A i \in 1..Len(loans) :
        LET s == users[loans[i].id_utilisateur].list_emprunt IN
        /\ \E j \in 1..Len(s) : s[j].id_emprunt = loans[i].id_emprunt
        /\ \A j \in 1..Len(s) :
               s[j].id_emprunt = loans[i].id_emprunt
                   => s[j].date_retour_prevue = loans[i].date_retour_prevue

\* a loan has been renewed once and the summary in the patron's list still
\* carries the due date given at the borrow
C20_Witness ==
    \E i \in 1..Len(loans) :
        LET s == users[loans[i].id_utilisateur].list_emprunt IN
        /\ parse_date(loans[i].date_retour_prevue)
               = parse_date(loans[i].date_emprunt) + DUREE_EMPRUNT_DEFAUT + 1
        /\ \E j \in 1..Len(s) :
               /\ s[j].id_emprunt = loans[i].id_emprunt
               /\ parse_date(s[j].date_retour_prevue)
                      = parse_date(loans[i].date_emprunt) + DUREE_EMPRUNT_DEFAUT

\* the day after the date d, and the dates in calendar order
Lendemain(d) ==
    IF d[1] < DaysInMonth(d[2], d[3]) THEN <<d[1] + 1, d[2], d[3]>>
    ELSE IF d[2] < 12 THEN <<1, d[2] + 1, d[3]>>
    ELSE <<1, 1, d[3] + 1>>

Avant(a, b) ==
    \/ a[3] < b[3]
    \/ a[3] = b[3] /\ a[2] < b[2]
    \/ a[3] = b[3] /\ a[2] = b[2] /\ a[1] < b[1]

\* the number of days to go from a to b, a not after b, counted day by day
RECURSIVE JoursEntre(_, _)
JoursEntre(a, b) == IF a = b THEN 0 ELSE 1 + JoursEntre(Lendemain(a), b)

\* per-day rates supplied to calculer_penalites
TauxSaisis == {0, 1, TAUX_PAR_JOUR_DEFAUT}

\* C21: for every loan and every current date, the number of days late is the
\* number of whole days from the due date to the current date, and 0 when the
\* current date is not after the due date; the penalty computed and stored
\* is that number times the rate supplied; due 14/02/2025 and current
\* 19/02/2025 give 5 days and 5 times the rate
C21_DaysLateAndPenalty ==
    \A i \in 1..Len(loans), d \in ClockDates \cup DatesEcheance \cup {today},
       t \in TauxSaisis :
        LET l == loans[i]
            due == l.date_retour_prevue
            attendu == IF Avant(due, d) THEN JoursEntre(due, d) ELSE 0
            p == calculer_penalites(l, d, t)
        IN /\ detecter_retard(l, d) = attendu
           /\ p.valeur = attendu * t
           /\ p.loan = [l EXCEPT !.penalites = attendu * t]
           /\ (due = <<14, 2, 2025>> /\ d = <<19, 2, 2025>>)
                  => detecter_retard(l, d) = 5 /\ p.valeur = 5 * t

\* a loan is five days late and carries the penalty computed by the menu at
\* the default rate, while another loan, renewed, is one day less late
C21_Witness ==
    \E i, j \in 1..Len(loans) :
        /\ detecter_retard(loans[i], today) = 5
        /\ loans[i].penalites = 5 * TAUX_PAR_JOUR_DEFAUT
        /\ detecter_retard(loans[j], today) = 4

\* C22: for every loan due the day after the current date, the lateness
\* value is -1 and the detection of late loans lists the loan among those
\* due tomorrow and not among the late ones
C22_DueTomorrowSentinel ==
    \A i \in 1..Len(loans) :
        parse_date(loans[i].date_retour_prevue) = parse_date(today) + 1 =>
            LET r == detecter_retards(St, today) IN
            /\ detecter_retard(loans[i], today) = -1
            /\ \E j \in 1..Len(r.emprunts_1_jour_avant) :
                   r.emprunts_1_jour_avant[j] = loans[i]
            /\ \A j \in 1..Len(r.emprunts_en_retard) :
                   r.emprunts_en_retard[j] # loans[i]

\* a loan is due tomorrow, its lateness value is 0 and the detection lists it
\* in neither group
C22_Witness ==
    \E i \in 1..Len(loans) :
        LET r == detecter_retards(St, today) IN
        /\ Lendemain(today) = loans[i].date_retour_prevue
        /\ detecter_retard(loans[i], today) = 0
        /\ r.emprunts_1_jour_avant = <<>>
        /\ r.emprunts_en_retard = <<>>

\* C23: under borrows, returns, promotions and changes of the total number
\* of copies, every title has between 0 and its total number of copies
\* available; a new total below 1 is rejected and changes nothing, and every
\* new total of at least 1 is accepted and keeps the available copies within
\* the new total
C23_AvailableWithinTotal ==
    \A b \in DOMAIN books :
        /\ 0 <= books[b].exemplaire_disponible
        /\ books[b].exemplaire_disponible <= books[b].nbre_exemplaire_total
        /\ books[b].nbre_exemplaire_total >= 1
        /\ \A v \in -1..(MaxTotal + 1) :
               LET r == set_nbre_exemplaire_total(books[b], v) IN
               /\ v < 1 => r.err # "none" /\ r.bk = books[b]
               /\ v >= 1 =>
                    /\ r.err = "none"
                    /\ r.bk.nbre_exemplaire_total = v
                    /\ 0 <= r.bk.exemplaire_disponible
                    /\ r.bk.exemplaire_disponible <= v

\* the total was lowered to 1 while copies were on loan; one copy is back,
\* the counter is at the total and a loan of the title is still out
C23_Witness ==
    \E b \in DOMAIN books :
        /\ books[b].nbre_exemplaire_total = 1
        /\ books[b].exemplaire_disponible = 1
        /\ Cardinality({i \in 1..Len(loans) : loans[i].id_livre = b}) >= 1

\* C24: under borrows, returns, renewals and promotions, the identifiers in
\* a patron's list of current loans are exactly the identifiers of the
\* active loans made by that patron, each once
C24_LockStep ==
    \A u \in DOMAIN users :
        LET s == users[u].list_emprunt
            actifs == {i \in 1..Len(loans) : loans[i].id_utilisateur = u}
        IN /\ {s[j].id_emprunt : j \in 1..Len(s)}
                  = {loans[i].id_emprunt : i \in actifs}
           /\ Len(s) = Cardinality(actifs)
           /\ \A i, j \in 1..Len(loans) :
                  loans[i].id_emprunt = loans[j].id_emprunt => i = j

\* a patron who has returned a loan still holds two, one of them renewed
C24_Witness ==
    \E u \in DOMAIN users :
        /\ Len(users[u].list_emprunt) = 2
        /\ users[u].nombre_emprunt_total > 2
        /\ \E i \in 1..Len(loans) :
               /\ loans[i].id_utilisateur = u
               /\ parse_date(loans[i].date_retour_prevue) =
                      parse_date(loans[i].date_emprunt) + DUREE_EMPRUNT_DEFAUT + 1

\* C25: a borrow of n copies that fails, because n is below 1, because n
\* exceeds the available copies or because a copy is refused in the loop,
\* leaves the book, the patron and the active loans exactly as before the
\* call and reports no loan created; a borrow that succeeds creates n loans
C25_BorrowAllOrNothing ==
    \A b \in DOMAIN books, u \in DOMAIN users :
        \A n \in -1..(MaxTotal + 2) :
            LET r == emprunter_livre(St, b, u, n, today) IN
            /\ r.err # "none" => r.st = St /\ r.crees = <<>>
            /\ r.err = "none" =>
                   /\ Len(r.st.loans) = Len(loans) + n
                   /\ Len(r.crees) = n
                   /\ r.st.books[b].exemplaire_disponible
                          = books[b].exemplaire_disponible - n
            /\ n < 1 => r.err = "ValidationError"
            /\ (n >= 1 /\ n > books[b].exemplaire_disponible
                  /\ n <= limite_emprunts(u) - nombre_emprunts_en_cours(users[u]))
                   => r.err = "InsufficientCopies"

\* two copies of a title that is not available are asked for by a patron who
\* may borrow two: the first copy is refused in the loop and nothing is changed
C25_Witness ==
    \E b \in DOMAIN books, u \in DOMAIN users :
        /\ books[b].exemplaire_disponible >= 2
        /\ books[b].statut # "disponible"
        /\ limite_emprunts(u) - nombre_emprunts_en_cours(users[u]) >= 2
        /\ users[u].nombre_emprunt_total >= 1
        /\ emprunter_livre(St, b, u, 2, today).err = "NotAvailable"
        /\ emprunter_livre(St, b, u, 2, today).st = St

\* C26: a return with an unknown loan identifier fails with NotFound; a
\* return given a title other than the title of the loan, or a patron whose
\* list does not hold the loan, returns false; in the three cases the
\* books, the patrons and the active loans are left as they were
C26_RejectedReturn ==
    \A id \in LoanIdArgs, b \in DOMAIN books, u \in DOMAIN users :
        LET r == retourner_livre(St, id, b, u)
            i == LoanIndex(St, id)
        IN /\ i = 0 => r.err = "NotFound" /\ r.st = St
           /\ (i # 0 /\ b # loans[i].id_livre) => r.err = "false" /\ r.st = St
           /\ (i # 0 /\ ~HasEmprunt(users[u], id)) => r.err = "false" /\ r.st = St
           /\ (i # 0 /\ b = loans[i].id_livre /\ HasEmprunt(users[u], id))
                  => r.err = "none"

\* a patron hands in a loan of one title together with another title, of
\* which every copy is out: the return is refused
C26_Witness ==
    \E i \in 1..Len(loans), b \in DOMAIN books :
        /\ b # loans[i].id_livre
        /\ books[b].exemplaire_disponible = 0
        /\ books[b].statut = "emprunte"
        /\ retourner_livre(St, loans[i].id_emprunt, b, loans[i].id_utilisateur).err
               = "false"
        /\ \E u \in DOMAIN users :
               /\ u # loans[i].id_utilisateur
               /\ users[u].list_emprunt # <<>>
               /\ retourner_livre(St, loans[i].id_emprunt, loans[i].id_livre, u).err
                      = "false"

\* C27: in every step, two reservations of one title that have the same
\* reservation date and are queued before and after the step keep their
\* relative order and positions, and a reservation that enters the queue is
\* placed behind every queued reservation that has its reservation date: the
\* reservations of one date stand in the order of their Reserve calls
C27_StableTieBreak ==
    [][\A b \in DOMAIN books :
          LET q == files_attente[b]
              q2 == files_attente'[b]
          IN /\ \A x, y \in DOMAIN resv \cap DOMAIN resv' :
                    (/\ InSeq(q, x) /\ InSeq(q, y) /\ InSeq(q2, x) /\ InSeq(q2, y)
                     /\ resv[x].date_reservation = resv[y].date_reservation
                     /\ IndexIn(q, x) < IndexIn(q, y))
                    => /\ IndexIn(q2, x) < IndexIn(q2, y)
                       /\ resv'[x].position_file < resv'[y].position_file
             /\ \A x \in DOMAIN resv, y \in DOMAIN resv' :
                    (/\ InSeq(q, x) /\ InSeq(q2, x)
                     /\ ~InSeq(q, y) /\ InSeq(q2, y)
                     /\ resv'[x].date_reservation = resv'[y].date_reservation)
                    => /\ IndexIn(q2, x) < IndexIn(q2, y)
                       /\ resv'[x].position_file < resv'[y].position_file
      ]_vars

\* two reservations made on the same day stand one behind the other, behind
\* a reservation of another day
C27_Witness ==
    \E b \in DOMAIN books :
        /\ Len(files_attente[b]) = 3
        /\ resv[files_attente[b][2]].date_reservation
               = resv[files_attente[b][3]].date_reservation
        /\ resv[files_attente[b][1]].date_reservation
               # resv[files_attente[b][2]].date_reservation
        /\ resv[files_attente[b][3]].position_file = 3

\* C28: under borrows, returns, reservations, cancellations, promotions and
\* changes of the total number of copies, from available titles with every
\* copy on the shelf, a title with no available copy has status emprunte or
\* reserve
C28_NoCopyMeansOnLoan ==
    \A b \in DOMAIN books :
        books[b].exemplaire_disponible = 0
            => books[b].statut \in {"emprunte", "reserve"}

\* one copy of two is on loan, the total is lowered to 1, and the title has
\* no available copy and is still marked available
C28_Witness ==
    \E b \in DOMAIN books :
        /\ books[b].exemplaire_disponible = 0
        /\ books[b].statut = "disponible"
        /\ books[b].nbre_exemplaire_total = 1
        /\ Cardinality({i \in 1..Len(loans) : loans[i].id_livre = b}) = 1

\* C29: for every book, the record written by to_dict and read back by
\* from_dict gives a book with the same total number of copies and the same
\* number of available copies, so that after a restart the available copies
\* and the active loans of a title still add up to its total
C29_RoundTripKeepsCounts ==
    \A b \in DOMAIN books :
        LET bk == Book_from_dict(Book_to_dict(books[b])) IN
        /\ bk.nbre_exemplaire_total = books[b].nbre_exemplaire_total
        /\ bk.exemplaire_disponible = books[b].exemplaire_disponible
        /\ books[b].exemplaire_disponible
               + Cardinality({i \in 1..Len(loans) : loans[i].id_livre = b})
               = books[b].nbre_exemplaire_total

\* after a restart, a title of which two copies are on loan has a total of
\* one copy, and that copy is available
C29_Witness ==
    \E b \in DOMAIN books :
        /\ Cardinality({i \in 1..Len(loans) : loans[i].id_livre = b}) = 2
        /\ books[b].compteur_emprunt = 2
        /\ books[b].nbre_exemplaire_total = 1
        /\ books[b].exemplaire_disponible = 1

\* C30: a promotion called on a reservation whose position in the queue is
\* greater than 1 creates no loan and removes no reservation, even when the
\* title is available with a copy and the patron is below the limit
C30_NoPromotionOutOfTurn ==
    \A id \in DOMAIN resv :
        resv[id].position_file > 1 =>
            LET r == transformer_reservation_en_emprunt(St, id) IN
            /\ r.err # "none"
            /\ r.st.loans = loans
            /\ r.st.reservations = reservations
            /\ DOMAIN r.st.resv = DOMAIN resv
            /\ r.st.files_attente = files_attente

\* the second reservation of an available title is promoted: its patron
\* gets the copy and the first reserver stays in the queue
C30_Witness ==
    \E id \in DOMAIN resv :
        LET b == resv[id].id_livre
            r == transformer_reservation_en_emprunt(St, id)
        IN /\ resv[id].position_file = 2
           /\ est_disponible(books[b])
           /\ r.err = "none"
           /\ Len(r.st.loans) = Len(loans) + 1
           /\ r.st.loans[Len(r.st.loans)].id_utilisateur = resv[id].id_utilisateur
           /\ r.st.files_attente[b] # <<>>
           /\ r.st.files_attente[b][1] = files_attente[b][1]

====
